---- MODULE Spec2Model ----
(***************************************************************************)
(* Model of the chat relay (xAI relay handler with Supabase persistence),  *)
(* the earlier Groq relay handler and the two chat-history delete          *)
(* handlers of tomo-academy/Tomo-chatbot.                                  *)
(*                                                                         *)
(* Text is a sequence of one-character strings.  null / undefined is       *)
(* Null for identifiers and tokens, NullText for text values, and 0 for    *)
(* chat identifiers (the code tests them with !chatId, which 0 satisfies). *)
(***************************************************************************)
EXTENDS Integers, Sequences, FiniteSets, TLC

\* ------------------------------------------------------------------ bounds

\* History DELETE requests received in one behaviour.
MaxDeletes == 1
\* Chunks the completion provider's byte stream is cut into, at most.
MaxChunks == 2
\* Pieces a first user message is put together from, at most.
MaxPieces == 5

\* ------------------------------------------------------------------- text

Null == "null"
NullText == <<"null">>
NoChat == 0

Whitespace == {" ", "\t", "\n"}

\* The backquote character (the lexer of the tools reserves it, so it is named).
Backquote == "bq"

\* The character class of the replace() in generateChatTitle.
MarkupChars == {"#", "*", Backquote, "_", "~", "[", "]", "(", ")"}

Ellipsis == <<".", ".", ".">>

NewChatText == <<"N", "e", "w", " ", "c", "h", "a", "t">>

TitleMaxLen == 20

TitleCutLen == 17

TitleMaxWords == 3

MinWordLen == 2

Min(a, b) == IF a < b THEN a ELSE b

\* String.prototype.trim
RECURSIVE TrimLeft(_)
TrimLeft(s) ==
  IF s # <<>> /\ Head(s) \in Whitespace THEN TrimLeft(Tail(s)) ELSE s

RECURSIVE TrimRight(_)
TrimRight(s) ==
  IF s # <<>> /\ s[Len(s)] \in Whitespace
  THEN TrimRight(SubSeq(s, 1, Len(s) - 1))
  ELSE s

Trim(s) == TrimRight(TrimLeft(s))

\* String.prototype.split(/\s+/): cur is the field being read, inSep tells
\* that the previous character belonged to a separator run.
RECURSIVE SplitFrom(_, _, _)
SplitFrom(s, cur, inSep) ==
  IF s = <<>> THEN <<cur>>
  ELSE IF Head(s) \in Whitespace
       THEN IF inSep THEN SplitFrom(Tail(s), cur, TRUE)
            ELSE <<cur>> \o SplitFrom(Tail(s), <<>>, TRUE)
       ELSE SplitFrom(Tail(s), Append(cur, Head(s)), FALSE)

SplitWhitespace(s) == SplitFrom(s, <<>>, FALSE)

\* Array.prototype.join with a single space
RECURSIVE JoinSpace(_)
JoinSpace(ws) ==
  IF ws = <<>> THEN <<>>
  ELSE IF Len(ws) = 1 THEN ws[1]
  ELSE ws[1] \o <<" ">> \o JoinSpace(Tail(ws))

IsMarkup(c) == c \in MarkupChars

LongEnough(w) == Len(w) > MinWordLen

\* generateChatTitle without the truncation of a long title
generateChatTitle_NoTruncation(content) ==
  LET NotMarkup(c) == ~IsMarkup(c)
      words == SelectSeq(SplitWhitespace(Trim(SelectSeq(content, NotMarkup))),
                         LongEnough)
      title == JoinSpace(SubSeq(words, 1, Min(TitleMaxWords, Len(words))))
  IN IF title = <<>> THEN NewChatText ELSE title

\* generateChatTitle(content)
generateChatTitle(content) ==
  LET NotMarkup(c) == ~IsMarkup(c)
      cleanContent == Trim(SelectSeq(content, NotMarkup))
      words == SelectSeq(SplitWhitespace(cleanContent), LongEnough)
      titleWords == SubSeq(words, 1, Min(TitleMaxWords, Len(words)))
      joined == JoinSpace(titleWords)
      title == IF Len(joined) > TitleMaxLen
               THEN SubSeq(joined, 1, TitleCutLen) \o Ellipsis
               ELSE joined
  IN IF title = <<>> THEN NewChatText ELSE title


\* --------------------------------------------------------------- UTF-8

\* Characters outside ASCII are named by their code point.
EAcute == "U+00E9"
Replacement == "U+FFFD"

\* The UTF-8 encoding of the characters the modelled provider answers with.
Utf8(c) == IF c = EAcute THEN <<195, 169>> ELSE <<97>>

RECURSIVE Encode(_)
Encode(text) ==
  IF text = <<>> THEN <<>> ELSE Utf8(Head(text)) \o Encode(Tail(text))

IsAscii(b) == b < 128
IsLead2(b) == b >= 194 /\ b <= 223
IsContinuation(b) == b >= 128 /\ b <= 191

AsciiChar(b) == IF b = 97 THEN "a" ELSE Replacement

TwoByteChar(l, c) == IF l = 195 /\ c = 169 THEN EAcute ELSE Replacement

\* new TextDecoder().decode(value): a fresh decoder with no stream option, so
\* a sequence that the input ends inside of decodes to U+FFFD, and so does a
\* continuation byte with no lead byte before it.
RECURSIVE Decode(_)
Decode(bytes) ==
  IF bytes = <<>> THEN <<>>
  ELSE IF IsAscii(Head(bytes))
       THEN <<AsciiChar(Head(bytes))>> \o Decode(Tail(bytes))
  ELSE IF IsLead2(Head(bytes)) /\ Len(bytes) >= 2 /\ IsContinuation(bytes[2])
       THEN <<TwoByteChar(bytes[1], bytes[2])>> \o Decode(Tail(Tail(bytes)))
  ELSE <<Replacement>> \o Decode(Tail(bytes))

\* The ways a byte sequence arrives in at most n non-empty chunks.
RECURSIVE Splits(_, _)
Splits(b, n) ==
  IF b = <<>> THEN {<<>>}
  ELSE IF n <= 1 THEN {<<b>>}
  ELSE {<<b>>} \cup
       UNION { { <<SubSeq(b, 1, i)>> \o rest :
                   rest \in Splits(SubSeq(b, i + 1, Len(b)), n - 1) } :
               i \in 1..(Len(b) - 1) }


\* -------------------------------------------------------------- inputs

T_Hello ==
  <<"#", "#", " ", "H", "e", "l", "l", "o", " ", "W", "o", "r", "l", "d", " ",
    "f", "r", "o", "m", " ", "A", "I", "!", "!">>

T_Long ==
  <<"e", "x", "p", "l", "a", "i", "n", " ", "q", "u", "a", "n", "t", "u", "m",
    " ", "c", "o", "m", "p", "u", "t", "i", "n", "g">>

T_Hi == <<"h", "i">>

T_Brief == <<"B", "e", " ", "b", "r", "i", "e", "f">>

T_Ok == <<"o", "k">>

Msg(r, c) == [role |-> r, content |-> c]

MsgsHello == <<Msg("user", T_Hello)>>

MsgsThread ==
  <<Msg("system", T_Brief), Msg("user", T_Long), Msg("assistant", T_Ok),
    Msg("user", T_Hi)>>

MsgsNoUser == <<Msg("assistant", T_Ok), Msg("system", T_Brief)>>

MsgsBadRole == <<Msg("tool", T_Hi)>>

MsgsEmptyContent == <<Msg("user", <<>>)>>

ValidMessageInputs == {MsgsHello, MsgsThread, MsgsNoUser}

MessageInputs ==
  ValidMessageInputs \cup {MsgsBadRole, MsgsEmptyContent, <<>>}

\* The keys of languageModels and the provider-side names they map to.
languageModels ==
  [k \in {"grok-4", "grok-3", "grok-3-fast", "grok-3-mini", "grok-3-mini-fast"}
     |-> CASE k = "grok-4" -> "grok-4-latest"
           [] k = "grok-3" -> "grok-3-latest"
           [] k = "grok-3-fast" -> "grok-3-fast-latest"
           [] k = "grok-3-mini" -> "grok-3-mini-latest"
           [] k = "grok-3-mini-fast" -> "grok-3-mini-fast-latest"]

\* Property names every object literal inherits from Object.prototype.
ObjectPrototypeKeys == {"constructor", "toString", "valueOf", "hasOwnProperty"}

Undefined == "undefined"

\* model values of the modelled requests: a key, an absent field, a name that
\* is no key, and a name that is no key but an inherited property.
ModelInputs == {"grok-3-mini", Null, "gpt-4", "constructor"}

Users == {"u1", "u2"}

UserIdInputs == Users \cup {Null}

AuthorizationInputs == {Null, "Bearer ", "Bearer t1", "Bearer t2", "Bearer bad"}

\* Chat identifiers a request may carry, NoChat for none.
MaxChatId == 3

ChatIdInputs == 0..MaxChatId

\* The texts the modelled provider answers with.
CompletionTexts == {<<"a">>, <<EAcute>>, <<"a", EAcute>>}

\* What the identity verifier maps a credential to.
TokenSubject(token) ==
  CASE token = "t1" -> "u1"
    [] token = "t2" -> "u2"
    [] OTHER -> Null


\* --------------------------------------------------------------- state

\* First user messages for the title: every concatenation of at most
\* MaxPieces pieces (separators, a markup character, words of 2, 3 and 8
\* characters, which concatenate to longer words).
TitlePieces ==
  { <<" ">>, <<"\t">>, <<"#">>, <<"a", "b">>, <<"a", "b", "c">>,
    <<"a", "b", "c", "d", "e", "f", "g", "h">> }

RECURSIVE TitleTexts(_)
TitleTexts(n) ==
  IF n = 0 THEN {<<>>}
  ELSE LET shorter == TitleTexts(n - 1)
       IN shorter \cup {s \o p : s \in shorter, p \in TitlePieces}

TitleInputs == TitleTexts(MaxPieces)

VARIABLES
  req,             \* the relay request being handled
  pc,              \* where the relay handler is suspended
  res,             \* what the caller has been sent
  verifiedUserId,  \* handler local
  generatedText,   \* handler local
  answer,          \* the text the provider answers this request with
  pending,         \* byte chunks of the provider stream not yet read
  save,            \* the saveToSupabase call of the request
  chats,           \* store table chats
  messages,        \* store table messages, in creation order
  nextId,          \* the next chat id the store issues
  calls,           \* calls made for the request, per collaborator
  logs,            \* what console.error was called with
  buffer,          \* Groq handler local: the incomplete last line
  endpoint,        \* the handler that received the request: "xai" or "groq"
  del,             \* the history DELETE request being handled
  ndel             \* history DELETE requests received

relayVars ==
  <<req, pc, res, verifiedUserId, generatedText, answer, pending, calls, logs, buffer, endpoint>>
storeVars == <<chats, messages, nextId>>
delVars == <<del, ndel>>
vars == <<relayVars, save, storeVars, delVars>>

Row(c, r, t) == [chat_id |-> c, role |-> r, content |-> t]

EmptyStore == [chats |-> {}, messages |-> <<>>, nextId |-> 1]

\* A store that earlier requests have written: one session of each user.
SeededStore ==
  [chats |-> {[id |-> 1, user_id |-> "u1", title |-> T_Brief],
              [id |-> 2, user_id |-> "u2", title |-> NewChatText]},
   messages |-> <<Row(1, "user", T_Brief), Row(1, "assistant", T_Ok),
                  Row(2, "user", T_Hi), Row(2, "assistant", T_Ok)>>,
   nextId |-> 3]

InitStores == {EmptyStore, SeededStore}

NoBody ==
  [error |-> "", content |-> NullText, sessionId |-> NoChat,
   sessionTitle |-> NullText, userId |-> Null]

NoResponse ==
  [status |-> 0, sse |-> FALSE, body |-> NoBody, events |-> <<>>, ended |-> FALSE]

\* res.status(code).json({ error })
JsonError(code, msg) ==
  [status |-> code, sse |-> FALSE, body |-> [NoBody EXCEPT !.error = msg],
   events |-> <<>>, ended |-> TRUE]

\* res.status(200).json({ choices, sessionId, sessionTitle })
JsonCompletion(text, id, title) ==
  [status |-> 200, sse |-> FALSE,
   body |-> [NoBody EXCEPT !.content = text, !.sessionId = id,
                            !.sessionTitle = title],
   events |-> <<>>, ended |-> TRUE]

DeltaEvent(chunk) == [kind |-> "delta", content |-> chunk]
DoneEvent == [kind |-> "done", content |-> <<>>]
ErrorEvent == [kind |-> "error", content |-> <<>>]

IdleSave ==
  [pc |-> "idle", awaited |-> FALSE, userId |-> Null, messages |-> <<>>,
   generatedText |-> <<>>, chatId |-> NoChat, newChatId |-> NoChat,
   sessionTitle |-> NullText, beforeEnd |-> FALSE]

\* Calls made for the request, per collaborator, with how the verifier call
\* settled and whether a provider call or read failed.
NoCalls ==
  [verifier |-> 0, provider |-> 0, store |-> 0, verifierOutcome |-> "none",
   providerFailed |-> FALSE]

IdleRequest ==
  [method |-> "POST", configured |-> TRUE, hasBody |-> TRUE,
   messagesIsArray |-> TRUE, messages |-> MsgsHello, model |-> Null,
   stream |-> FALSE, userId |-> Null, chatId |-> NoChat,
   authorization |-> Null]

IdleDelete ==
  [pc |-> "idle", handler |-> "new", authorization |-> Null, sessionId |-> NoChat,
   userId |-> Null, chatIds |-> {}, status |-> 0]

AllRequests ==
  [method : {"POST", "GET"}, configured : BOOLEAN, hasBody : BOOLEAN,
   messagesIsArray : BOOLEAN, messages : MessageInputs, model : ModelInputs,
   stream : BOOLEAN, userId : UserIdInputs, chatId : ChatIdInputs,
   authorization : AuthorizationInputs]

SameBody(r, q) ==
  /\ r.messagesIsArray = q.messagesIsArray /\ r.messages = q.messages
  /\ r.model = q.model /\ r.stream = q.stream /\ r.userId = q.userId
  /\ r.chatId = q.chatId /\ r.authorization = q.authorization

\* The modelled requests.  A request that the method, configuration or body
\* gate turns away is enumerated once, not once per value of the fields the
\* handler never reads; a messages field that is no array has no elements.
RequestInputs ==
  { r \in AllRequests :
      /\ r.method # "POST" => r.configured /\ r.hasBody
      /\ ~r.configured => r.hasBody
      /\ (r.method # "POST" \/ ~r.configured \/ ~r.hasBody) => SameBody(r, IdleRequest)
      /\ ~r.messagesIsArray => r.messages = <<>> }

Init ==
  /\ req = IdleRequest
  /\ pc = "idle"
  /\ res = NoResponse
  /\ verifiedUserId = Null
  /\ generatedText = <<>>
  /\ answer = NullText
  /\ pending = <<>>
  /\ save = IdleSave
  /\ \E st \in InitStores :
       chats = st.chats /\ messages = st.messages /\ nextId = st.nextId
  /\ calls = NoCalls
  /\ logs = {}
  /\ buffer = <<>>
  /\ endpoint = "none"
  /\ del = IdleDelete
  /\ ndel = 0


\* ------------------------------------------------------- relay handler

\* const { model = 'grok-4' } = req.body
ModelOf(r) == IF r.model = Null THEN "grok-4" ELSE r.model

\* languageModels[model]: an own property, else one inherited from
\* Object.prototype, else undefined.
LookupModel(m) ==
  IF m \in DOMAIN languageModels THEN languageModels[m]
  ELSE IF m \in ObjectPrototypeKeys THEN "[inherited]"
  ELSE Undefined

\* !messages || !Array.isArray(messages) || messages.length === 0
MessagesRejected(r) == ~r.messagesIsArray \/ Len(r.messages) = 0

\* !languageModels[model]
ModelRejected(r) == LookupModel(ModelOf(r)) = Undefined

\* req.headers.authorization?.replace('Bearer ', '')
BearerToken(h) ==
  CASE h = Null -> Null
    [] h = "Bearer " -> ""
    [] h = "Bearer t1" -> "t1"
    [] h = "Bearer t2" -> "t2"
    [] h = "Bearer bad" -> "bad"
    [] OTHER -> h

Falsy(x) == x = Null \/ x = ""

\* The provider call the handler awaits next: streamText or generateText.
ProviderCall(r) == IF r.stream THEN "streamText" ELSE "generateText"

\* A behaviour follows one relay request, against a store that earlier
\* requests have written (InitStores).
CanReceive == pc = "idle"

\* The handler up to its first await.
Receive(r) ==
  /\ req' = r
  /\ verifiedUserId' = Null
  /\ generatedText' = <<>>
  /\ answer' = NullText
  /\ pending' = <<>>
  /\ save' = IdleSave
  /\ IF r.method # "POST"
     THEN res' = JsonError(405, "Method not allowed")
          /\ pc' = "done" /\ calls' = NoCalls /\ logs' = {}
     ELSE IF ~r.configured
     THEN res' = JsonError(500, "Server configuration missing")
          /\ pc' = "done" /\ calls' = NoCalls /\ logs' = {}
     ELSE IF ~r.hasBody
     THEN res' = JsonError(500, "Internal server error")
          /\ pc' = "done" /\ calls' = NoCalls /\ logs' = {"Chat API error"}
     ELSE IF MessagesRejected(r)
     THEN res' = JsonError(400, "Messages are required and must be an array")
          /\ pc' = "done" /\ calls' = NoCalls /\ logs' = {}
     ELSE IF ModelRejected(r)
     THEN res' = JsonError(400, "Invalid model")
          /\ pc' = "done" /\ calls' = NoCalls /\ logs' = {}
     ELSE IF ~Falsy(r.userId)
     THEN IF Falsy(BearerToken(r.authorization))
          THEN res' = JsonError(401, "Authentication token required")
               /\ pc' = "done" /\ calls' = NoCalls /\ logs' = {}
          ELSE res' = NoResponse /\ pc' = "getUser"
               /\ calls' = [NoCalls EXCEPT !.verifier = 1] /\ logs' = {}
     ELSE res' = NoResponse /\ pc' = ProviderCall(r)
          /\ calls' = [NoCalls EXCEPT !.provider = 1] /\ logs' = {}
  /\ endpoint' = "xai"
  /\ UNCHANGED <<storeVars, delVars, buffer>>

\* error || !user || user.id !== userId, without the comparison of subjects
Unauthorized_NoSubjectCheck(outcome, subject, userId) == outcome = "error"

\* error || !user || user.id !== userId
Unauthorized(outcome, subject, userId) ==
  outcome = "error" \/ subject = Null \/ subject # userId

\* supabaseAdmin.auth.getUser(token) settles: with a user, with an error, or
\* by throwing.
GetUserReturn(outcome) ==
  /\ pc = "getUser"
  /\ outcome = "user" => TokenSubject(BearerToken(req.authorization)) # Null
  /\ IF outcome = "throw"
     THEN res' = JsonError(401, "Authentication failed")
          /\ pc' = "done" /\ logs' = logs \cup {"Authentication error"}
          /\ calls' = [calls EXCEPT !.verifierOutcome = outcome]
          /\ UNCHANGED verifiedUserId
     ELSE IF Unauthorized(outcome, TokenSubject(BearerToken(req.authorization)),
                          req.userId)
     THEN res' = JsonError(401, "Invalid or unauthorized token")
          /\ pc' = "done"
          /\ calls' = [calls EXCEPT !.verifierOutcome = outcome]
          /\ UNCHANGED <<verifiedUserId, logs>>
     ELSE verifiedUserId' = TokenSubject(BearerToken(req.authorization))
          /\ pc' = ProviderCall(req)
          /\ calls' = [calls EXCEPT !.provider = @ + 1,
                                     !.verifierOutcome = outcome]
          /\ UNCHANGED <<res, logs>>
  /\ UNCHANGED <<endpoint, req, generatedText, answer, pending, save, storeVars, delVars, buffer>>

\* messages.find(m => m.role === 'user')?.content || 'New chat'
RECURSIVE FirstUserContent(_)
FirstUserContent(msgs) ==
  IF msgs = <<>> THEN NewChatText
  ELSE IF Head(msgs).role = "user"
       THEN IF Head(msgs).content = <<>> THEN NewChatText ELSE Head(msgs).content
       ELSE FirstUserContent(Tail(msgs))

\* saveToSupabase with every caller awaiting it
SaveCall_Awaited(userId, msgs, text, chatId, title, awaited, ended) ==
  [pc |-> IF chatId = NoChat THEN "insertChat" ELSE "appendMessages",
   awaited |-> TRUE, userId |-> userId, messages |-> msgs,
   generatedText |-> text, chatId |-> chatId, newChatId |-> chatId,
   sessionTitle |-> IF chatId = NoChat
                    THEN generateChatTitle(FirstUserContent(msgs))
                    ELSE title,
   beforeEnd |-> ~ended]

\* saveToSupabase up to its first await: the title and the chat insert of a
\* new conversation, or the two-row insert of a continued one.
SaveCall(userId, msgs, text, chatId, title, awaited, ended) ==
  [pc |-> IF chatId = NoChat THEN "insertChat" ELSE "appendMessages",
   awaited |-> awaited, userId |-> userId, messages |-> msgs,
   generatedText |-> text, chatId |-> chatId, newChatId |-> chatId,
   sessionTitle |-> IF chatId = NoChat
                    THEN generateChatTitle(FirstUserContent(msgs))
                    ELSE title,
   beforeEnd |-> ~ended]

\* streamText settles: it throws, or the handler sends the SSE headers and
\* starts reading.
StreamTextReturn(ok, text, chunks) ==
  /\ pc = "streamText"
  /\ IF ok
     THEN /\ answer' = text
          /\ pending' = chunks
          /\ res' = [res EXCEPT !.status = 200, !.sse = TRUE]
          /\ pc' = "read"
          /\ UNCHANGED <<logs, calls>>
     ELSE /\ res' = JsonError(500, "Failed to initialize AI model")
          /\ pc' = "done"
          /\ logs' = logs \cup {"Model initialization error"}
          /\ calls' = [calls EXCEPT !.providerFailed = TRUE]
          /\ UNCHANGED <<answer, pending>>
  /\ UNCHANGED <<endpoint, req, verifiedUserId, generatedText, save, storeVars, delVars, buffer>>

\* the catch of the read loop, with the sentinel written after the error
StreamFailed_WithSentinel(events) == events \o <<ErrorEvent, DoneEvent>>

\* the catch of the read loop: res.write of the inline error event
StreamFailed(events) == Append(events, ErrorEvent)

\* reader.read() settles with a chunk: decode, accumulate, forward.
ReadChunk ==
  /\ pc = "read"
  /\ pending # <<>>
  /\ generatedText' = generatedText \o Decode(Head(pending))
  /\ res' = [res EXCEPT !.events = Append(@, DeltaEvent(Decode(Head(pending))))]
  /\ pending' = Tail(pending)
  /\ UNCHANGED <<endpoint, req, pc, verifiedUserId, answer, calls, logs, save, storeVars, delVars, buffer>>

\* reader.read() settles with done: the sentinel, the detached save, res.end().
ReadDone ==
  /\ pc = "read"
  /\ pending = <<>>
  /\ res' = [res EXCEPT !.events = Append(@, DoneEvent), !.ended = TRUE]
  /\ IF verifiedUserId # Null
     THEN save' = SaveCall(verifiedUserId, req.messages, generatedText,
                           req.chatId, NullText, FALSE, FALSE)
          /\ calls' = [calls EXCEPT !.store = @ + 1]
     ELSE UNCHANGED <<save, calls>>
  /\ pc' = "done"
  /\ UNCHANGED <<endpoint, req, verifiedUserId, generatedText, answer, pending, logs, storeVars, delVars, buffer>>

\* reader.read() throws: the inline error event, res.end().
ReadError ==
  /\ pc = "read"
  /\ res' = [res EXCEPT !.events = StreamFailed(@), !.ended = TRUE]
  /\ logs' = logs \cup {"Stream error"}
  /\ calls' = [calls EXCEPT !.providerFailed = TRUE]
  /\ pc' = "done"
  /\ UNCHANGED <<endpoint, req, verifiedUserId, generatedText, answer, pending, save, storeVars, delVars, buffer>>

\* generateText settles: it throws, or the handler saves (authenticated) or
\* responds.
GenerateTextReturn(ok, text) ==
  /\ pc = "generateText"
  /\ IF ~ok
     THEN /\ res' = JsonError(500, "Failed to generate response")
          /\ pc' = "done"
          /\ logs' = logs \cup {"Text generation error"}
          /\ calls' = [calls EXCEPT !.providerFailed = TRUE]
          /\ UNCHANGED <<generatedText, answer, save>>
     ELSE /\ answer' = text
          /\ generatedText' = text
          /\ UNCHANGED logs
          /\ IF verifiedUserId # Null
             THEN /\ save' = SaveCall(verifiedUserId, req.messages, text,
                                      req.chatId, NullText, TRUE, FALSE)
                  /\ calls' = [calls EXCEPT !.store = @ + 1]
                  /\ pc' = "saveToSupabase"
                  /\ UNCHANGED res
             ELSE /\ res' = JsonCompletion(text, req.chatId, NullText)
                  /\ pc' = "done"
                  /\ UNCHANGED <<save, calls>>
  /\ UNCHANGED <<endpoint, req, verifiedUserId, pending, storeVars, delVars, buffer>>


\* ------------------------------------------------------ saveToSupabase

\* [...messages, { role: 'assistant', content: generatedText }] as rows
RowsOf(id, msgs) == [i \in 1..Len(msgs) |-> Row(id, msgs[i].role, msgs[i].content)]

\* the rows of a new conversation without the assistant reply
AllRows_NoReply(id, msgs, text) == RowsOf(id, msgs)

AllRows(id, msgs, text) == Append(RowsOf(id, msgs), Row(id, "assistant", text))

\* the rows of a continued conversation with every earlier turn inserted again
AppendRows_AllTurns(id, msgs, text) == AllRows(id, msgs, text)

\* the last message of the request and the assistant reply as rows
AppendRows(id, msgs, text) ==
  <<Row(id, msgs[Len(msgs)].role, msgs[Len(msgs)].content),
    Row(id, "assistant", text)>>

\* the settling of saveToSupabase with the streaming caller awaiting it too
SaveSettled_Awaited(ok, id, title) ==
  IF ok
  THEN /\ res' = JsonCompletion(generatedText, id, title)
       /\ pc' = "done"
       /\ logs' = logs
  ELSE /\ res' = JsonError(500, "Failed to generate response")
       /\ pc' = "done"
       /\ logs' = logs \cup {"Error in saveToSupabase", "Text generation error"}

\* What the caller of saveToSupabase does when the call settles.  The
\* buffered handler awaits it inside the try of generateText: it responds 200
\* with the returned ids, or its catch responds 500.  The streaming handler
\* attached a catch that logs.
SaveSettled(ok, id, title) ==
  IF save.awaited
  THEN IF ok
       THEN /\ res' = JsonCompletion(generatedText, id, title)
            /\ pc' = "done"
            /\ logs' = logs
       ELSE /\ res' = JsonError(500, "Failed to generate response")
            /\ pc' = "done"
            /\ logs' = logs \cup {"Error in saveToSupabase", "Text generation error"}
  ELSE /\ res' = res
       /\ pc' = pc
       /\ logs' = IF ok THEN logs
                  ELSE logs \cup {"Error in saveToSupabase", "Error saving to Supabase"}

\* from('chats').insert(...).select('id').single() settles.
InsertChatReturn(ok) ==
  /\ save.pc = "insertChat"
  /\ IF ok
     THEN /\ chats' = chats \cup {[id |-> nextId, user_id |-> save.userId,
                                   title |-> save.sessionTitle]}
          /\ nextId' = nextId + 1
          /\ save' = [save EXCEPT !.pc = "insertMessages", !.newChatId = nextId]
          /\ calls' = [calls EXCEPT !.store = @ + 1]
          /\ UNCHANGED <<res, pc, logs>>
     ELSE /\ save' = [save EXCEPT !.pc = "rejected"]
          /\ SaveSettled(FALSE, save.newChatId, save.sessionTitle)
          /\ UNCHANGED <<chats, nextId, calls>>
  /\ UNCHANGED <<endpoint, req, verifiedUserId, generatedText, answer, pending, messages, delVars, buffer>>

\* from('messages').insert(inserts) of a new conversation settles.
InsertMessagesReturn(ok) ==
  /\ save.pc = "insertMessages"
  /\ IF ok
     THEN /\ messages' = messages \o AllRows(save.newChatId, save.messages,
                                             save.generatedText)
          /\ save' = [save EXCEPT !.pc = "resolved"]
     ELSE /\ save' = [save EXCEPT !.pc = "rejected"]
          /\ UNCHANGED messages
  /\ SaveSettled(ok, save.newChatId, save.sessionTitle)
  /\ UNCHANGED <<endpoint, req, verifiedUserId, generatedText, answer, pending, calls, chats, nextId, delVars, buffer>>

\* from('messages').insert(inserts) of a continued conversation settles.
AppendMessagesReturn(ok) ==
  /\ save.pc = "appendMessages"
  /\ IF ok
     THEN /\ messages' = messages \o AppendRows(save.chatId, save.messages,
                                                save.generatedText)
          /\ save' = [save EXCEPT !.pc = "resolved"]
     ELSE /\ save' = [save EXCEPT !.pc = "rejected"]
          /\ UNCHANGED messages
  /\ SaveSettled(ok, save.newChatId, save.sessionTitle)
  /\ UNCHANGED <<endpoint, req, verifiedUserId, generatedText, answer, pending, calls, chats, nextId, delVars, buffer>>

\* -------------------------------------------------- Groq relay handler

\* api/chat.js, the relay to the Groq completions endpoint.  The provider's
\* SSE body is a sequence of tokens: the prefix "data: ", a payload, "\n".
GroqDelta == "{delta:a}"
GroqBodies ==
  { <<"data: ", GroqDelta, "\n", "\n", "data: ", "[DONE]", "\n", "\n">>,
    <<"data: ", GroqDelta, "\n", "data: ", "{bad", "\n", "data: ", GroqDelta>> }

\* The fields the Groq handler reads; the others stay at their defaults.
GroqRequestInputs ==
  { r \in RequestInputs :
      /\ r.model = Null /\ r.chatId = NoChat /\ r.authorization = Null }

Roles == {"system", "user", "assistant"}

\* The loop over messages: a role outside the enumeration, or a content that
\* is empty, is turned away.
RolesRejected(msgs) ==
  \E i \in 1..Len(msgs) : msgs[i].role \notin Roles \/ msgs[i].content = <<>>

\* userId.replace(/[^a-zA-Z0-9]/g, '').substring(0, 8): the modelled ids are
\* alphanumeric and shorter than 8 characters.
FormatUserId(u) == IF Falsy(u) THEN "anonymous" ELSE u

\* String.prototype.split('\n')
RECURSIVE SplitLines(_, _)
SplitLines(s, cur) ==
  IF s = <<>> THEN <<cur>>
  ELSE IF Head(s) = "\n" THEN <<cur>> \o SplitLines(Tail(s), <<>>)
  ELSE SplitLines(Tail(s), Append(cur, Head(s)))

\* JSON.parse(line.substring(6)) succeeds
ParsesAsJson(line) == Len(line) = 2 /\ line[2] = GroqDelta

\* line.startsWith('data: ') && line !== 'data: [DONE]', and the payload parses
Forwarded(line) ==
  /\ line # <<>> /\ line[1] = "data: "
  /\ line # <<"data: ", "[DONE]">>
  /\ ParsesAsJson(line)

\* the events written for the complete lines of one chunk
RECURSIVE GroqEvents(_)
GroqEvents(lines) ==
  IF lines = <<>> THEN <<>>
  ELSE (IF Forwarded(Head(lines)) THEN <<DeltaEvent(<<"a">>)>> ELSE <<>>)
       \o GroqEvents(Tail(lines))

\* The handler up to its first await: validation, then the SSE headers (in
\* streaming mode) and the fetch.
GroqReceive(r) ==
  /\ req' = r
  /\ IF r.method # "POST"
     THEN res' = JsonError(405, "Method not allowed")
          /\ pc' = "done" /\ calls' = NoCalls /\ logs' = {}
     ELSE IF ~r.hasBody
     THEN res' = JsonError(500, "Internal server error")
          /\ pc' = "done" /\ calls' = NoCalls /\ logs' = {"Error in chat API"}
     ELSE IF MessagesRejected(r)
     THEN res' = JsonError(400, "Messages are required and must be an array")
          /\ pc' = "done" /\ calls' = NoCalls /\ logs' = {}
     ELSE IF RolesRejected(r.messages)
     THEN res' = JsonError(400, "Invalid role or content")
          /\ pc' = "done" /\ calls' = NoCalls /\ logs' = {}
     ELSE IF ~r.configured
     THEN res' = JsonError(500, "API key not configured")
          /\ pc' = "done" /\ calls' = NoCalls /\ logs' = {}
     ELSE IF r.stream
     THEN res' = [NoResponse EXCEPT !.status = 200, !.sse = TRUE]
          /\ pc' = "groqFetchStream"
          /\ calls' = [NoCalls EXCEPT !.provider = 1] /\ logs' = {}
     ELSE res' = NoResponse /\ pc' = "groqFetch"
          /\ calls' = [NoCalls EXCEPT !.provider = 1] /\ logs' = {}
  /\ endpoint' = "groq"
  /\ UNCHANGED <<verifiedUserId, generatedText, answer, pending, buffer, save, storeVars, delVars>>

\* The streaming fetch settles: it throws, the provider answers with an
\* error status, or the body starts arriving.
GroqFetchStreamReturn(outcome, chunks) ==
  /\ pc = "groqFetchStream"
  /\ IF outcome = "ok"
     THEN pending' = chunks /\ pc' = "groqRead" /\ UNCHANGED <<res, logs, calls>>
     ELSE /\ res' = [res EXCEPT !.events = Append(@, ErrorEvent), !.ended = TRUE]
          /\ pc' = "done"
          /\ logs' = IF outcome = "throw"
                     THEN logs \cup {"Error in streaming API"} ELSE logs
          /\ calls' = [calls EXCEPT !.providerFailed = TRUE]
          /\ UNCHANGED pending
  /\ UNCHANGED <<endpoint, req, verifiedUserId, generatedText, answer, buffer, save, storeVars, delVars>>

\* reader.read() settles with a chunk: the complete lines are forwarded, the
\* incomplete last line is kept.
GroqReadChunk ==
  /\ pc = "groqRead"
  /\ pending # <<>>
  /\ LET lines == SplitLines(buffer \o Head(pending), <<>>) IN
       /\ buffer' = lines[Len(lines)]
       /\ res' = [res EXCEPT !.events =
                    @ \o GroqEvents(SubSeq(lines, 1, Len(lines) - 1))]
       /\ logs' = IF \E i \in 1..(Len(lines) - 1) :
                       /\ lines[i] # <<>> /\ lines[i][1] = "data: "
                       /\ lines[i] # <<"data: ", "[DONE]">>
                       /\ ~ParsesAsJson(lines[i])
                  THEN logs \cup {"Error parsing JSON"} ELSE logs
  /\ pending' = Tail(pending)
  /\ UNCHANGED <<endpoint, req, pc, verifiedUserId, generatedText, answer, calls, save, storeVars, delVars>>

\* reader.read() settles with done: the sentinel, res.end().
GroqReadDone ==
  /\ pc = "groqRead"
  /\ pending = <<>>
  /\ res' = [res EXCEPT !.events = Append(@, DoneEvent), !.ended = TRUE]
  /\ pc' = "done"
  /\ UNCHANGED <<endpoint, req, verifiedUserId, generatedText, answer, pending, buffer, calls, logs, save, storeVars, delVars>>

\* reader.read() throws: the catch writes the inline error event, res.end().
GroqReadError ==
  /\ pc = "groqRead"
  /\ res' = [res EXCEPT !.events = Append(@, ErrorEvent), !.ended = TRUE]
  /\ logs' = logs \cup {"Error in streaming API"}
  /\ calls' = [calls EXCEPT !.providerFailed = TRUE]
  /\ pc' = "done"
  /\ UNCHANGED <<endpoint, req, verifiedUserId, generatedText, answer, pending, buffer, save, storeVars, delVars>>

ProviderErrorStatuses == {400, 429}

\* The buffered fetch settles: it throws (outer catch, 500), the provider
\* answers with an error status (passed on), or with the completion.
GroqFetchReturn(outcome, status, text) ==
  /\ pc = "groqFetch"
  /\ res' = CASE outcome = "throw" -> JsonError(500, "Internal server error")
              [] outcome = "notOk" -> JsonError(status, "API request failed")
              [] OTHER -> [status |-> 200, sse |-> FALSE,
                           body |-> [NoBody EXCEPT !.content = text,
                                       !.userId = FormatUserId(req.userId)],
                           events |-> <<>>, ended |-> TRUE]
  /\ answer' = IF outcome = "ok" THEN text ELSE answer
  /\ logs' = IF outcome = "throw" THEN logs \cup {"Error in chat API"} ELSE logs
  /\ calls' = [calls EXCEPT !.providerFailed = (outcome # "ok")]
  /\ pc' = "done"
  /\ UNCHANGED <<endpoint, req, verifiedUserId, generatedText, pending, buffer, save, storeVars, delVars>>

\* ------------------------------------------------ chat history DELETE

\* The DELETE requests of the two chat-history handlers: "new" is
\* New api/chat-history.js (handleDelete), "old" is api/chat-history.js.
DeleteInputs ==
  [handler : {"new", "old"}, authorization : AuthorizationInputs,
   sessionId : ChatIdInputs]

ChatIdsOf(u) == {c.id : c \in {x \in chats : x.user_id = u}}

MessagesNotOf(ids) ==
  LET Kept(m) == m.chat_id \notin ids IN SelectSeq(messages, Kept)

DelSettle(status) == del' = [del EXCEPT !.pc = "done", !.status = status]

\* Either handler up to its first await: the credential is read and handed
\* to the verifier.
DeleteReceive(d) ==
  /\ del' = IF Falsy(BearerToken(d.authorization))
            THEN [IdleDelete EXCEPT !.pc = "done", !.handler = d.handler,
                    !.authorization = d.authorization,
                    !.sessionId = d.sessionId, !.status = 401]
            ELSE [IdleDelete EXCEPT !.pc = "verify", !.handler = d.handler,
                    !.authorization = d.authorization,
                    !.sessionId = d.sessionId]
  /\ ndel' = ndel + 1
  /\ UNCHANGED <<relayVars, save, storeVars>>

\* The verifier settles.  New handler: verifyIdToken throws on a bad
\* credential and the outer catch answers 500; then the first select is
\* issued.  Old handler: getUser reports an error and the handler answers
\* 401; then the chats delete is issued.
DeleteVerifyReturn ==
  /\ del.pc = "verify"
  /\ LET u == TokenSubject(BearerToken(del.authorization)) IN
       del' = IF u = Null
              THEN [del EXCEPT !.pc = "done",
                      !.status = IF del.handler = "new" THEN 500 ELSE 401]
              ELSE [del EXCEPT !.userId = u,
                      !.pc = IF del.handler = "old" THEN "deleteChatsOld"
                             ELSE IF del.sessionId # NoChat THEN "selectChat"
                             ELSE "selectChats"]
  /\ UNCHANGED <<relayVars, save, storeVars, ndel>>

\* New handler, one session: the ownership select settles.
SelectChatReturn(ok) ==
  /\ del.pc = "selectChat"
  /\ IF ok /\ del.sessionId \in ChatIdsOf(del.userId)
     THEN del' = [del EXCEPT !.pc = "deleteMessages"]
     ELSE DelSettle(404)
  /\ UNCHANGED <<relayVars, save, storeVars, ndel>>

\* New handler, one session: the messages delete settles.
DeleteMessagesReturn(ok) ==
  /\ del.pc = "deleteMessages"
  /\ IF ok
     THEN messages' = MessagesNotOf({del.sessionId})
          /\ del' = [del EXCEPT !.pc = "deleteChat"]
     ELSE DelSettle(500) /\ UNCHANGED messages
  /\ UNCHANGED <<relayVars, save, chats, nextId, ndel>>

\* New handler, one session: the chat delete (by id alone) settles.
DeleteChatReturn(ok) ==
  /\ del.pc = "deleteChat"
  /\ IF ok
     THEN chats' = {c \in chats : c.id # del.sessionId} /\ DelSettle(200)
     ELSE DelSettle(500) /\ UNCHANGED chats
  /\ UNCHANGED <<relayVars, save, messages, nextId, ndel>>

\* New handler, all sessions: the select of the user's chat ids settles.
SelectChatsReturn(ok) ==
  /\ del.pc = "selectChats"
  /\ IF ~ok THEN DelSettle(500)
     ELSE IF ChatIdsOf(del.userId) = {} THEN DelSettle(200)
     ELSE del' = [del EXCEPT !.pc = "deleteMessagesIn",
                    !.chatIds = ChatIdsOf(del.userId)]
  /\ UNCHANGED <<relayVars, save, storeVars, ndel>>

\* New handler, all sessions: the delete of the messages of the selected
\* chat ids settles.
DeleteMessagesInReturn(ok) ==
  /\ del.pc = "deleteMessagesIn"
  /\ IF ok
     THEN messages' = MessagesNotOf(del.chatIds)
          /\ del' = [del EXCEPT !.pc = "deleteChats"]
     ELSE DelSettle(500) /\ UNCHANGED messages
  /\ UNCHANGED <<relayVars, save, chats, nextId, ndel>>

\* New handler, all sessions: the delete of the user's chats settles.
DeleteChatsReturn(ok) ==
  /\ del.pc = "deleteChats"
  /\ IF ok
     THEN chats' = {c \in chats : c.user_id # del.userId} /\ DelSettle(200)
     ELSE DelSettle(500) /\ UNCHANGED chats
  /\ UNCHANGED <<relayVars, save, messages, nextId, ndel>>

\* Old handler: its one store call, a delete on chats, settles.
DeleteChatsOldReturn(ok) ==
  /\ del.pc = "deleteChatsOld"
  /\ IF ok
     THEN /\ chats' = IF del.sessionId # NoChat
                      THEN {c \in chats :
                              ~(c.id = del.sessionId /\ c.user_id = del.userId)}
                      ELSE {c \in chats : c.user_id # del.userId}
          /\ DelSettle(200)
     ELSE DelSettle(500) /\ UNCHANGED chats
  /\ UNCHANGED <<relayVars, save, messages, nextId, ndel>>

\* --------------------------------------------------------- specification

RelaySteps ==
  \/ \E outcome \in {"user", "error", "throw"} : GetUserReturn(outcome)
  \/ \E ok \in BOOLEAN, text \in CompletionTexts :
       \E chunks \in Splits(Encode(text), MaxChunks) :
         StreamTextReturn(ok, text, chunks)
  \/ ReadChunk
  \/ ReadDone
  \/ ReadError
  \/ \E ok \in BOOLEAN, text \in CompletionTexts : GenerateTextReturn(ok, text)
  \/ \E ok \in BOOLEAN : InsertChatReturn(ok)
  \/ \E ok \in BOOLEAN : InsertMessagesReturn(ok)
  \/ \E ok \in BOOLEAN : AppendMessagesReturn(ok)

RelayNext ==
  \/ CanReceive /\ \E r \in RequestInputs : Receive(r)
  \/ RelaySteps

GroqNext ==
  \/ CanReceive /\ \E r \in GroqRequestInputs : GroqReceive(r)
  \/ \E outcome \in {"ok", "notOk", "throw"}, body \in GroqBodies :
       \E chunks \in Splits(body, MaxChunks) :
         GroqFetchStreamReturn(outcome, chunks)
  \/ GroqReadChunk
  \/ GroqReadDone
  \/ GroqReadError
  \/ \E outcome \in {"ok", "notOk", "throw"}, status \in ProviderErrorStatuses,
        text \in CompletionTexts :
       GroqFetchReturn(outcome, status, text)

Next == RelayNext \/ GroqNext

\* One relay request of any shape, against each initial store.
Spec == Init /\ [][Next]_vars

\* The relay requests that reach saveToSupabase.
SaveRequestInputs ==
  { r \in RequestInputs :
      /\ r.method = "POST" /\ r.configured /\ r.hasBody /\ r.messagesIsArray
      /\ r.messages \in {MsgsHello, MsgsThread}
      /\ r.model = Null
      /\ r.userId \in Users
      /\ TokenSubject(BearerToken(r.authorization)) = r.userId }

CanDelete == del.pc \in {"idle", "done"} /\ ndel < MaxDeletes

DeleteNext ==
  \/ CanDelete /\ \E d \in DeleteInputs : DeleteReceive(d)
  \/ DeleteVerifyReturn
  \/ \E ok \in BOOLEAN : SelectChatReturn(ok)
  \/ \E ok \in BOOLEAN : DeleteMessagesReturn(ok)
  \/ \E ok \in BOOLEAN : DeleteChatReturn(ok)
  \/ \E ok \in BOOLEAN : SelectChatsReturn(ok)
  \/ \E ok \in BOOLEAN : DeleteMessagesInReturn(ok)
  \/ \E ok \in BOOLEAN : DeleteChatsReturn(ok)
  \/ \E ok \in BOOLEAN : DeleteChatsOldReturn(ok)

HistoryNext ==
  \/ CanReceive /\ \E r \in SaveRequestInputs : Receive(r)
  \/ RelaySteps
  \/ DeleteNext

\* History DELETE requests interleaved with a relay request that saves.
HistorySpec == Init /\ [][HistoryNext]_vars


\* The buffered handler of an authenticated caller reaches saveToSupabase for
\* a new conversation whose only message is a user message of the given
\* content.
SaveNewChat(userId, content, text) ==
  /\ pc = "idle" /\ save.pc = "idle"
  /\ req' = [IdleRequest EXCEPT !.messages = <<Msg("user", content)>>,
                                !.userId = userId, !.stream = FALSE,
                                !.authorization = "Bearer t1"]
  /\ endpoint' = "xai"
  /\ verifiedUserId' = userId
  /\ answer' = text
  /\ generatedText' = text
  /\ save' = SaveCall(userId, <<Msg("user", content)>>, text, NoChat, NullText,
                      TRUE, FALSE)
  /\ calls' = [calls EXCEPT !.provider = 1, !.store = 1]
  /\ pc' = "saveToSupabase"
  /\ UNCHANGED <<res, pending, logs, buffer, storeVars, delVars>>

TitleNext ==
  \/ CanReceive /\ \E content \in TitleInputs : SaveNewChat(TokenSubject("t1"), content, T_Ok)
  \/ \E ok \in BOOLEAN : InsertChatReturn(ok)
  \/ \E ok \in BOOLEAN : InsertMessagesReturn(ok)

\* saveToSupabase for new conversations over the first user messages of
\* TitleInputs.
TitleSpec == Init /\ [][TitleNext]_vars


\* ---------------------------------------------------------------- claims

Xai == endpoint = "xai"

\* The request passed the method, configuration and body gates.
PassedGates == req.method = "POST" /\ req.configured /\ req.hasBody

\* A valid request in the sense of the specification: a non-empty message
\* list with roles of the enumeration and non-empty contents, and a model
\* that is a key of languageModels.
ValidMessages ==
  req.messagesIsArray /\ req.messages # <<>> /\ ~RolesRejected(req.messages)

KnownModel == ModelOf(req) \in DOMAIN languageModels

ValidRequest == PassedGates /\ ValidMessages /\ KnownModel

Last(seq) == seq[Len(seq)]

\* C1: in buffered mode, for an authenticated caller whose provider call
\* succeeded, a failed persistence step leaves the response at status 200
\* carrying the completion text.
C1_SaveFailureKeepsCompletion ==
  (/\ Xai /\ ~req.stream /\ verifiedUserId # Null
   /\ answer # NullText /\ save.pc = "rejected")
  => (res.status = 200 /\ res.body.content = answer)

\* C2: a valid buffered request of an authenticated caller without a session
\* identifier, whose provider and persistence calls succeed, creates exactly
\* one session row for the verified subject, inserts exactly len(messages)+1
\* message rows (the request messages in order, then the reply) tagged with
\* the new identifier, and is answered 200 with that identifier and a
\* non-empty title.
C2_NewConversationSaved ==
  (/\ Xai /\ ValidRequest /\ ~req.stream /\ verifiedUserId # Null
   /\ req.chatId = NoChat /\ save.pc = "resolved")
  => \E st \in InitStores :
       LET id == res.body.sessionId
           n == Len(st.messages)
           k == Len(req.messages)
       IN /\ res.status = 200
          /\ res.body.content = answer
          /\ id # NoChat
          /\ id \notin {c.id : c \in st.chats}
          /\ res.body.sessionTitle # NullText
          /\ res.body.sessionTitle # <<>>
          /\ chats = st.chats \cup {[id |-> id, user_id |-> verifiedUserId,
                                    title |-> res.body.sessionTitle]}
          /\ Len(messages) = n + k + 1
          /\ SubSeq(messages, 1, n) = st.messages
          /\ \A i \in 1..k :
               messages[n + i] = Row(id, req.messages[i].role, req.messages[i].content)
          /\ messages[n + k + 1] = Row(id, "assistant", answer)

C2_Witness ==
  /\ Xai /\ ValidRequest /\ ~req.stream /\ verifiedUserId # Null
  /\ req.chatId = NoChat /\ save.pc = "resolved"
  /\ req.messages = MsgsThread /\ res.status = 200

\* C3: a valid buffered request of an authenticated caller that supplies a
\* session identifier never creates or modifies a session row and inserts
\* nothing but the two rows (the last request message, then the reply) tagged
\* with the supplied identifier; when it is answered 200 exactly these two
\* rows have been inserted, sessionId is the supplied identifier and
\* sessionTitle is null.
C3_ContinuedConversationSaved ==
  (Xai /\ ValidRequest /\ ~req.stream /\ verifiedUserId # Null /\ req.chatId # NoChat)
  => \E st \in InitStores :
       LET two == <<Row(req.chatId, Last(req.messages).role, Last(req.messages).content),
                    Row(req.chatId, "assistant", answer)>>
       IN /\ chats = st.chats /\ nextId = st.nextId
          /\ messages = st.messages \/ messages = st.messages \o two
          /\ save.pc = "resolved" <=> messages = st.messages \o two
          /\ res.status = 200 =>
               /\ messages = st.messages \o two
               /\ res.body.content = answer
               /\ res.body.sessionId = req.chatId
               /\ res.body.sessionTitle = NullText

C3_Witness ==
  /\ Xai /\ ValidRequest /\ ~req.stream /\ verifiedUserId # Null
  /\ req.chatId # NoChat /\ req.messages = MsgsThread
  /\ res.status = 200 /\ Len(messages) = Len(SeededStore.messages) + 2

\* C4: a request whose model is no key of languageModels is answered 400 and
\* no call reaches the provider, the verifier or the store.
C4_UnknownModelRejected ==
  (Xai /\ PassedGates /\ ~KnownModel)
  => /\ calls.verifier = 0 /\ calls.provider = 0 /\ calls.store = 0
     /\ pc = "done" => res.status = 400

\* The credential of a request that carries a userId is missing, rejected by
\* the verifier (an error or an exception), or verified to another subject.
AuthenticationFails ==
  \/ Falsy(BearerToken(req.authorization))
  \/ calls.verifierOutcome \in {"error", "throw"}
  \/ /\ calls.verifierOutcome = "user"
     /\ TokenSubject(BearerToken(req.authorization)) # req.userId

\* C5: a request that carries a userId and reaches the authentication step
\* (it passed the method, configuration, messages and model checks) whose
\* credential is missing, rejected or verified to another subject is
\* answered 401, and neither the provider nor a persistence write is
\* invoked; a verifier exception yields 401 too.
C5_AuthenticationFailureIs401 ==
  (/\ Xai /\ PassedGates /\ ~MessagesRejected(req) /\ ~ModelRejected(req)
   /\ ~Falsy(req.userId) /\ AuthenticationFails)
  => /\ pc = "done" /\ res.status = 401
     /\ calls.provider = 0 /\ calls.store = 0 /\ save.pc = "idle"
     /\ \E st \in InitStores : chats = st.chats /\ messages = st.messages

C5_Witness ==
  /\ Xai /\ ~Falsy(req.userId) /\ calls.verifierOutcome = "user"
  /\ TokenSubject(BearerToken(req.authorization)) # req.userId
  /\ res.status = 401


RECURSIVE ConcatDeltas(_)
ConcatDeltas(events) ==
  IF events = <<>> THEN <<>>
  ELSE (IF Head(events).kind = "delta" THEN Head(events).content ELSE <<>>)
       \o ConcatDeltas(Tail(events))

HasEvent(kind) == \E i \in 1..Len(res.events) : res.events[i].kind = kind

\* A step in which a provider call or read of a streaming request fails.
StreamFailureStep ==
  /\ endpoint \in {"xai", "groq"} /\ req.stream
  /\ ~calls.providerFailed /\ calls'.providerFailed

\* C6, as claimed: in incremental mode a provider failure before any chunk
\* has been sent is answered 500 with an error body, and a failure after a
\* chunk has been sent writes an inline error event, with the status
\* unchanged, the connection closed and no sentinel.
C6_FailureBeforeFirstChunkIs500 ==
  (/\ endpoint \in {"xai", "groq"} /\ req.stream /\ pc = "done"
   /\ calls.providerFailed)
  => IF ~HasEvent("delta")
     THEN res.status = 500 /\ res.body.error # "" /\ res.events = <<>>
     ELSE /\ res.status = 200 /\ res.ended /\ ~HasEvent("done")
          /\ Last(res.events) = ErrorEvent

\* C6, amended: in incremental mode a provider failure before the SSE headers
\* have been written is answered 500 with an error body; a failure after
\* they have been written, whether or not a chunk has been forwarded, appends
\* one inline error event to the open stream, leaves the status at 200 and
\* closes the connection, and no sentinel is written.
C6_FailureAfterHeadersIsInline ==
  [][StreamFailureStep =>
       IF res.sse
       THEN /\ res.status = 200 /\ ~res.ended
            /\ res' = [res EXCEPT !.events = Append(@, ErrorEvent), !.ended = TRUE]
            /\ ~HasEvent("done")
            /\ pc' = "done"
       ELSE /\ res.status = 0
            /\ res'.status = 500 /\ res'.body.error # "" /\ res'.events = <<>>
            /\ res'.ended /\ pc' = "done"]_vars

C6_Witness ==
  /\ Xai /\ req.stream /\ pc = "done" /\ calls.providerFailed
  /\ res.sse /\ res.status = 200 /\ res.events = <<ErrorEvent>>

\* A step in which the detached save of a streaming request fails.
DetachedSaveFails ==
  /\ Xai /\ req.stream /\ ~save.awaited
  /\ save.pc \in {"insertChat", "insertMessages", "appendMessages"}
  /\ save'.pc = "rejected"

\* C7: in incremental mode, once the response has been sent (the fragments,
\* the sentinel, the connection closed), a failure of the save changes
\* nothing the caller observes: the status stays 200, no event is added and
\* the streamed sequence stays what it was before the save settled.
C7_SaveFailureAfterStreamUnobserved ==
  [][DetachedSaveFails =>
       /\ res.status = 200 /\ res.ended /\ Last(res.events) = DoneEvent
       /\ res' = res /\ pc' = pc]_vars

C7_Witness ==
  /\ Xai /\ req.stream /\ ~save.awaited /\ save.pc = "rejected"
  /\ res.status = 200 /\ HasEvent("delta")

\* C8: the in-order concatenation of the fragments forwarded in incremental
\* mode equals the text buffered mode returns for the same input (answer),
\* and equals the text the handler accumulated and passed to the save.
C8_StreamEqualsBuffered ==
  (/\ Xai /\ req.stream /\ pc = "done" /\ HasEvent("done"))
  => /\ ConcatDeltas(res.events) = answer
     /\ generatedText = answer
     /\ save.pc # "idle" => save.generatedText = answer

\* C9: a request in which some message has a role outside the enumeration or
\* an empty content is answered 400 by the role check (after the messages
\* check, before the model check) and no call reaches the provider, the
\* verifier or the store.
C9_BadMessageRejected ==
  (/\ Xai /\ PassedGates /\ req.messagesIsArray /\ req.messages # <<>>
   /\ RolesRejected(req.messages))
  => /\ calls.verifier = 0 /\ calls.provider = 0 /\ calls.store = 0
     /\ pc = "done" => res.status = 400 /\ res.body.error = "Invalid role or content"

\* C10: no message row exists whose session row does not exist, whatever
\* history deletes and relay saves have run.
C10_NoOrphanMessages ==
  \A i \in 1..Len(messages) : messages[i].chat_id \in {c.id : c \in chats}

\* The procedure of the specification for the title, stated over the words
\* of the text (the maximal runs of characters that are no whitespace) once
\* the markup characters are removed.
Unmarked(text) == LET Kept(c) == c \notin MarkupChars IN SelectSeq(text, Kept)

WordStarts(s) ==
  { i \in 1..Len(s) : s[i] \notin Whitespace /\ (i = 1 \/ s[i - 1] \in Whitespace) }

WordEnd(s, i) ==
  CHOOSE j \in i..Len(s) :
    /\ \A k \in i..j : s[k] \notin Whitespace
    /\ j = Len(s) \/ s[j + 1] \in Whitespace

SurvivingStarts(s) == { i \in WordStarts(s) : WordEnd(s, i) - i + 1 > 2 }

\* the n-th surviving word of s
SurvivingWord(s, n) ==
  LET i == CHOOSE i \in SurvivingStarts(s) :
             Cardinality({k \in SurvivingStarts(s) : k < i}) = n - 1
  IN SubSeq(s, i, WordEnd(s, i))

RECURSIVE JoinedWords(_, _)
JoinedWords(s, n) ==
  IF n = 0 THEN <<>>
  ELSE IF n = 1 THEN SurvivingWord(s, 1)
  ELSE JoinedWords(s, n - 1) \o <<" ">> \o SurvivingWord(s, n)

SpecifiedTitle(text) ==
  LET s == Unmarked(text)
      n == Cardinality(SurvivingStarts(s))
      joined == JoinedWords(s, IF n > 3 THEN 3 ELSE n)
  IN IF n = 0 THEN <<"N", "e", "w", " ", "c", "h", "a", "t">>
     ELSE IF Len(joined) > 20 THEN SubSeq(joined, 1, 17) \o <<".", ".", ".">>
     ELSE joined

SaveStarts == Xai /\ req.stream /\ save.pc = "idle" /\ save'.pc # "idle"

\* A step of a streaming request in which a store call takes effect.
StoreWritten == Xai /\ req.stream /\ storeVars' # storeVars

\* C12, as claimed: in incremental mode the save is started only after the
\* stream has been closed, that is after the sentinel is written and the
\* connection is ended.
C12_SaveStartedAfterClose ==
  (Xai /\ req.stream /\ save.pc # "idle") => ~save.beforeEnd

\* C12, amended: in incremental mode saveToSupabase is called after the
\* sentinel has been written and before the connection is ended, in the run
\* of the handler that ends the connection; the handler does not await it
\* (it is finished when that run ends), and every store write of the save
\* takes effect after the connection is ended and leaves the response as it
\* is.
C12_SaveStartedBeforeEndNeverAwaited ==
  [][/\ SaveStarts =>
          /\ ~res.ended /\ res.status = 200
          /\ res' = [res EXCEPT !.events = Append(@, DoneEvent), !.ended = TRUE]
          /\ save'.beforeEnd /\ ~save'.awaited
          /\ pc' = "done"
     /\ StoreWritten =>
          /\ res.ended /\ Last(res.events) = DoneEvent /\ pc = "done"
          /\ res' = res /\ pc' = pc]_vars

C12_Witness ==
  /\ Xai /\ req.stream /\ save.pc = "resolved" /\ save.beforeEnd /\ ~save.awaited
  /\ res.ended /\ Last(res.events) = DoneEvent /\ HasEvent("delta")

\* The request supplies a session identifier that is not the identifier of a
\* session of the verified subject.
ForeignSession ==
  /\ Xai /\ verifiedUserId # Null /\ req.chatId # NoChat
  /\ ~\E c \in chats : c.id = req.chatId /\ c.user_id = verifiedUserId

\* The rows of the messages table tagged with the session identifier.
RowsIn(rows, id) == LET Tagged(m) == m.chat_id = id IN SelectSeq(rows, Tagged)

\* C13: an authenticated request that supplies the identifier of a session of
\* another owner, or of no existing session, adds no message row to that
\* session.
C13_NoRowsInForeignSession ==
  ForeignSession
  => \E st \in InitStores :
       /\ chats = st.chats
       /\ RowsIn(messages, req.chatId) = RowsIn(st.messages, req.chatId)

\* C14: a save of a new conversation that failed at any step has left the
\* store as it was: no session row created by that call exists, so no
\* session row of the relay lacks its messages and the assistant reply.
C14_NewConversationAllOrNothing ==
  (Xai /\ save.chatId = NoChat /\ save.pc = "rejected")
  => \E st \in InitStores : chats = st.chats /\ messages = st.messages

====
